---- MODULE Spec2Model ----
(***************************************************************************)
(* Model of src/server.js: the in-memory job registry, the HTTP handlers   *)
(* and the montage pipeline processMontage.  Node runs the handlers and    *)
(* the pipeline on one event loop, so the code between two `await`s is one *)
(* atomic step; every `await` of an external tool is a suspension point at *)
(* which other pipelines and request handlers may run.                     *)
(***************************************************************************)
EXTENDS Integers, Sequences, FiniteSets, TLC

\* Bounds of the model.
MaxJobs == 2      \* creation requests accepted
MaxClips == 3     \* largest finite clipsNeeded a request asks for
MaxIter == 2      \* clip-loop iterations followed when clipsNeeded is Infinity

JobIds == 1..MaxJobs

\* The value of a property that has not been assigned.
Undefined == "undefined"

(***************************************************************************)
(* JavaScript numbers that are not integers: progress is a fraction.       *)
(***************************************************************************)
RECURSIVE GCD(_, _)
GCD(a, b) == IF b = 0 THEN a ELSE GCD(b, a % b)

Rat(n, d) == LET g == GCD(n, d) IN [num |-> n \div g, den |-> d \div g]

Num(n) == Rat(n, 1)

RatLeq(p, q) == p.num * q.den <= q.num * p.den

RatLess(p, q) == p.num * q.den < q.num * p.den

IsInteger(p) == p.den = 1

(***************************************************************************)
(* Request bodies of POST /api/generate-montage.  A body without the field *)
(* videoUrls is a record that lacks it.  The first request of a run ranges *)
(* over every body, the second carries the one-clip body and any further  *)
(* one a body that asks for no clip, so that every clip count is explored  *)
(* next to concurrent pipelines.                                           *)
(* With interval 0 every positive montageLength asks for endlessly many    *)
(* clips, so one such length is enough.                                    *)
(***************************************************************************)
Intervals == {0, 30}

MontageLengths == {0, 60, 30 * MaxClips + 5}

OneClipBody == [videoUrls |-> <<"u1", "u2">>, interval |-> 30, montageLength |-> 30]

TwoUrlBody == [videoUrls |-> <<"u1", "u2">>, interval |-> 30, montageLength |-> 60]

ValidBodies ==
    [videoUrls : {<<"u1">>}, interval : {30}, montageLength : MontageLengths]
        \cup [videoUrls : {<<"u1">>}, interval : {0}, montageLength : {0, 60}]
        \cup {OneClipBody, TwoUrlBody}

InvalidBodies ==
    {[interval |-> 30, montageLength |-> 60],
     [videoUrls |-> <<>>, interval |-> 30, montageLength |-> 60]}

Bodies == ValidBodies \cup InvalidBodies

LaterBodies == {OneClipBody} \cup InvalidBodies

NoClipBody == [videoUrls |-> <<"u1">>, interval |-> 30, montageLength |-> 0]

\* Variant of NoVideoUrls: only !videoUrls, the length test is missing.
NoVideoUrls_MissingOnly(body) ==
    "videoUrls" \notin DOMAIN body

\* !videoUrls || videoUrls.length === 0
NoVideoUrls(body) ==
    \/ "videoUrls" \notin DOMAIN body
    \/ Len(body.videoUrls) = 0

(***************************************************************************)
(* Outcomes of the external tools and of the filesystem calls.             *)
(***************************************************************************)
MissingDependencies == "Missing dependencies: FFmpeg and yt-dlp are required"

MkdtempErrors == {"ENOSPC: no space left on device, mkdtemp"}

WriteErrors == {"EACCES: permission denied, open clip_list.txt"}

EncodeErrors == {"Command failed: ffmpeg -f concat"}

\* exec(`which ${command}`): resolve(!error)
commandExists == BOOLEAN

\* The duration strings yt-dlp prints, each represented by its fields
\* between the colons: "20", "0:32" and "0:00:32".
Durations == {<<20>>, <<0, 32>>, <<0, 0, 32>>}

\* exec(`yt-dlp --get-duration`): resolve(stdout.trim()) or reject(error)
getVideoDuration == [ok : {TRUE}, stdout : Durations]
                        \cup [ok : {FALSE}, stdout : {<<>>}]

\* Math.random(): a number r with 0 <= r < 1, sampled at its least value 0
\* and at 999/1000, next to its upper end.
Randoms == {[num |-> 0, den |-> 1], [num |-> 999, den |-> 1000]}

\* exec(`yt-dlp -f ...`): resolve(outputFile) or reject(error)
downloadClip == {"resolve", "reject"}

\* exec(ffmpegCmd): resolve(outputFile) or reject(error)
createMontage == [ok : {TRUE}, message : {Undefined}]
                     \cup [ok : {FALSE}, message : EncodeErrors]

\* fs.mkdtempSync returns the new directory or throws
mkdtempSync == [ok : {TRUE}, message : {Undefined}]
                   \cup [ok : {FALSE}, message : MkdtempErrors]

\* fs.writeFileSync returns or throws
writeFileSync == [ok : {TRUE}, message : {Undefined}]
                     \cup [ok : {FALSE}, message : WriteErrors]

(***************************************************************************)
(* State.                                                                  *)
(*   jobs      the registry: job id -> job record                          *)
(*   procs     the frame of each processMontage call: where it is          *)
(*             suspended and its local variables                           *)
(*   env       per job, what the pipeline did to the outside: the          *)
(*             workspace, the tool invocations, the manifest file          *)
(*   response  the HTTP response sent by the step just taken, NoResponse   *)
(*             when that step was a pipeline step                          *)
(***************************************************************************)
VARIABLES jobs, procs, env, response

vars == <<jobs, procs, env, response>>

NoResponse == [code |-> 0, route |-> "none"]

\* uuidv4(): an identifier never returned before
uuidv4 == CHOOSE id \in JobIds \ DOMAIN jobs :
              \A other \in JobIds \ DOMAIN jobs : id <= other

NewJob(jobId, body) ==
    [id |-> jobId,
     type |-> "montage",
     status |-> "queued",
     progress |-> Num(0),
     createdAt |-> "date",
     data |-> body,
     error |-> Undefined,
     completedAt |-> Undefined,
     downloadUrl |-> Undefined,
     outputFile |-> Undefined]

\* The arguments of the tool call a pipeline is suspended on: the url of a
\* probe or an extraction, and the start and duration of an extraction.
NoCall == [url |-> Undefined, startTime |-> 0, duration |-> 0]

\* The frame of a call that has returned: its locals are gone.
Returned ==
    [pc |-> "returned", hasFFmpeg |-> FALSE, workspace |-> Undefined,
     i |-> 0, clips |-> <<>>, call |-> NoCall]

NewEnv ==
    [workspaces |-> 0, probes |-> 0, extractions |-> 0, encodes |-> 0,
     clipFiles |-> {},
     manifest |-> [written |-> FALSE, files |-> <<>>]]

\* data.videoUrls[0]
FirstUrl(data) ==
    IF Len(data.videoUrls) = 0 THEN Undefined ELSE data.videoUrls[1]

\* Variant of ClipUrl: the urls are used in turn,
\* data.videoUrls[i % data.videoUrls.length].
ClipUrl_RoundRobin(data, i) ==
    IF Len(data.videoUrls) = 0
    THEN Undefined
    ELSE data.videoUrls[(i % Len(data.videoUrls)) + 1]

\* const url = data.videoUrls[0], for the clip of index i
ClipUrl(data, i) == FirstUrl(data)

\* parseDuration(duration), duration given by its fields
parseDuration(parts) ==
    IF Len(parts) = 3
    THEN parts[1] * 3600 + parts[2] * 60 + parts[3]
    ELSE IF Len(parts) = 2
    THEN parts[1] * 60 + parts[2]
    ELSE parts[1]

\* Math.max(0, durationSeconds - data.interval)
MaxStart(durationSeconds, interval) ==
    IF durationSeconds - interval > 0 THEN durationSeconds - interval ELSE 0

\* Math.floor(Math.random() * maxStart)
StartTime(random, maxStart) == (random.num * maxStart) \div random.den

\* Math.floor(data.montageLength / data.interval), for operands >= 0
clipsNeeded(data) ==
    IF data.interval = 0
    THEN IF data.montageLength = 0
         THEN [kind |-> "NaN", val |-> 0]
         ELSE [kind |-> "Infinity", val |-> 0]
    ELSE [kind |-> "finite", val |-> data.montageLength \div data.interval]

\* Variant of LoopCond: i <= clipsNeeded.
LoopCond_Inclusive(i, n) ==
    CASE n.kind = "NaN" -> FALSE
      [] n.kind = "Infinity" -> TRUE
      [] OTHER -> i <= n.val

\* i < clipsNeeded
LoopCond(i, n) ==
    CASE n.kind = "NaN" -> FALSE
      [] n.kind = "Infinity" -> TRUE
      [] OTHER -> i < n.val

\* Variant of ClipProgress: (i / clipsNeeded) * 40, the offset 20 forgotten.
ClipProgress_NoOffset(i, n) ==
    IF n.kind = "Infinity"
    THEN Num(0)
    ELSE Rat(40 * i, n.val)

\* 20 + (i / clipsNeeded) * 40
ClipProgress(i, n) ==
    IF n.kind = "Infinity"
    THEN Num(20)
    ELSE Rat(20 * n.val + 40 * i, n.val)

\* path.join(workspace, `clip_${String(i + 1).padStart(2, '0')}.mp4`)
ClipFile(workspace, i) ==
    workspace \o "/clip_"
        \o (IF i + 1 < 10 THEN "0" \o ToString(i + 1) ELSE ToString(i + 1))
        \o ".mp4"

\* The directory fs.mkdtempSync creates for the pipeline of job jobId.
Workspace(jobId) == "/tmp/montage-" \o ToString(jobId)

Init ==
    /\ jobs = <<>>
    /\ procs = <<>>
    /\ env = <<>>
    /\ response = NoResponse


(***************************************************************************)
(* processMontage.  A configuration c is the job record, the frame and the *)
(* outside effects of one pipeline; each operator below is a stretch of    *)
(* straight-line code and yields the configurations it can end in.         *)
(***************************************************************************)

\* Variant of Catch: the handler records the error but not the status.
Catch_NoStatus(c, message) ==
    [c EXCEPT !.job.error = message,
              !.proc = Returned]

\* Variant of Catch: the handler resets progress.
Catch_ResetProgress(c, message) ==
    [c EXCEPT !.job.status = "failed",
              !.job.progress = Num(0),
              !.job.error = message,
              !.proc = Returned]

\* catch (error) { job.status = "failed"; job.error = error.message; }
Catch(c, message) ==
    [c EXCEPT !.job.status = "failed",
              !.job.error = message,
              !.proc = Returned]

\* Variant of Start: the job is marked processing before the first await.
Start_Eager(c) ==
    [c EXCEPT !.job.status = "processing",
              !.job.progress = Num(10),
              !.proc.pc = "checkFFmpeg"]

\* Entry up to the first await: jobs.get(jobId), then commandExists("ffmpeg")
\* is called and the function suspends.
Start(c) ==
    [c EXCEPT !.proc.pc = "checkFFmpeg"]

\* path.join(workspace, `${scriptName}_v01.mp4`), scriptName "montage"
OutputFile(workspace) == workspace \o "/montage_v01.mp4"

\* Variant of AfterLoop: the output path is stored on the job as soon as it
\* is computed, before the encoder has run.
AfterLoop_OutputEarly(c) ==
    LET c60 == [c EXCEPT !.job.progress = Num(60)]
    IN  { IF w.ok
          THEN [c60 EXCEPT !.env.manifest = [written |-> TRUE, files |-> c.proc.clips],
                           !.job.progress = Num(70),
                           !.job.outputFile = OutputFile(c.proc.workspace),
                           !.env.encodes = @ + 1,
                           !.proc.call = NoCall,
                           !.proc.pc = "encode"]
          ELSE Catch(c60, w.message)
          : w \in writeFileSync }

\* After the loop: progress 60, the manifest is written, progress 70, and
\* createMontage is called.
AfterLoop(c) ==
    LET c60 == [c EXCEPT !.job.progress = Num(60)]
    IN  { IF w.ok
          THEN [c60 EXCEPT !.env.manifest = [written |-> TRUE, files |-> c.proc.clips],
                           !.job.progress = Num(70),
                           !.env.encodes = @ + 1,
                           !.proc.call = NoCall,
                           !.proc.pc = "encode"]
          ELSE Catch(c60, w.message)
          : w \in writeFileSync }

\* The loop test at index c.proc.i: the next clip's probe is called, or the
\* loop is left.  An endless loop is followed for MaxIter iterations.
ClipLoop(c) ==
    LET n == clipsNeeded(c.job.data)
    IN  IF LoopCond(c.proc.i, n)
        THEN IF n.kind = "Infinity" /\ c.proc.i >= MaxIter
             THEN {}
             ELSE { [c EXCEPT !.env.probes = @ + 1,
                              !.proc.call = [NoCall EXCEPT
                                  !.url = ClipUrl(c.job.data, c.proc.i)],
                              !.proc.pc = "probe"] }
        ELSE AfterLoop(c)

\* i++ and the loop test
NextClip(c) ==
    ClipLoop([c EXCEPT !.proc.i = @ + 1])

\* commandExists("ffmpeg") has resolved; commandExists("yt-dlp") is called.
AfterFFmpegCheck(c, hasFFmpeg) ==
    { [c EXCEPT !.proc.hasFFmpeg = hasFFmpeg,
                !.proc.pc = "checkYtDlp"] }

\* Variant of AfterYtDlpCheck: the status is left queued when the
\* dependencies are present.
AfterYtDlpCheck_NoProcessing(c, hasYtDlp) ==
    IF ~c.proc.hasFFmpeg \/ ~hasYtDlp
    THEN { [c EXCEPT !.job.status = "failed",
                     !.job.error = MissingDependencies,
                     !.proc = Returned] }
    ELSE LET c10 == [c EXCEPT !.job.progress = Num(10)]
             Made(m) ==
                 IF m.ok
                 THEN ClipLoop([c10 EXCEPT !.env.workspaces = @ + 1,
                                           !.proc.workspace = Workspace(c.job.id),
                                           !.job.progress = Num(20),
                                           !.proc.clips = <<>>,
                                           !.proc.i = 0])
                 ELSE { Catch(c10, m.message) }
         IN  UNION { Made(m) : m \in mkdtempSync }

\* Variant of AfterYtDlpCheck: the dependency test is
\* !hasFFmpeg && !hasYtDlp.
AfterYtDlpCheck_And(c, hasYtDlp) ==
    IF ~c.proc.hasFFmpeg /\ ~hasYtDlp
    THEN { [c EXCEPT !.job.status = "failed",
                     !.job.error = MissingDependencies,
                     !.proc = Returned] }
    ELSE LET c10 == [c EXCEPT !.job.status = "processing",
                              !.job.progress = Num(10)]
             Made(m) ==
                 IF m.ok
                 THEN ClipLoop([c10 EXCEPT !.env.workspaces = @ + 1,
                                           !.proc.workspace = Workspace(c.job.id),
                                           !.job.progress = Num(20),
                                           !.proc.clips = <<>>,
                                           !.proc.i = 0])
                 ELSE { Catch(c10, m.message) }
         IN  UNION { Made(m) : m \in mkdtempSync }

\* commandExists("yt-dlp") has resolved: the dependency test, then the
\* workspace and the start of the clip loop.
AfterYtDlpCheck(c, hasYtDlp) ==
    IF ~c.proc.hasFFmpeg \/ ~hasYtDlp
    THEN { [c EXCEPT !.job.status = "failed",
                     !.job.error = MissingDependencies,
                     !.proc = Returned] }
    ELSE LET c10 == [c EXCEPT !.job.status = "processing",
                              !.job.progress = Num(10)]
             Made(m) ==
                 IF m.ok
                 THEN ClipLoop([c10 EXCEPT !.env.workspaces = @ + 1,
                                           !.proc.workspace = Workspace(c.job.id),
                                           !.job.progress = Num(20),
                                           !.proc.clips = <<>>,
                                           !.proc.i = 0])
                 ELSE { Catch(c10, m.message) }
         IN  UNION { Made(m) : m \in mkdtempSync }

\* Variant of AfterProbe: no inner try, a rejected probe reaches the outer
\* catch.
AfterProbe_Fatal(c, outcome, random) ==
    IF outcome.ok
    THEN LET maxStart == MaxStart(parseDuration(outcome.stdout), c.job.data.interval)
         IN  { [c EXCEPT !.env.extractions = @ + 1,
                         !.proc.call = [url |-> ClipUrl(c.job.data, c.proc.i),
                                        startTime |-> StartTime(random, maxStart),
                                        duration |-> c.job.data.interval],
                         !.proc.pc = "download"] }
    ELSE { Catch(c, "Command failed: yt-dlp --get-duration") }

\* getVideoDuration has settled.  Resolved: the duration is parsed, a
\* start is drawn and downloadClip is called.  Rejected: the inner catch
\* logs the error and the loop goes on.
AfterProbe(c, outcome, random) ==
    IF outcome.ok
    THEN LET maxStart == MaxStart(parseDuration(outcome.stdout), c.job.data.interval)
         IN  { [c EXCEPT !.env.extractions = @ + 1,
                         !.proc.call = [url |-> ClipUrl(c.job.data, c.proc.i),
                                        startTime |-> StartTime(random, maxStart),
                                        duration |-> c.job.data.interval],
                         !.proc.pc = "download"] }
    ELSE NextClip(c)

\* Variant of AfterDownload: clips.push runs before the await, so a
\* rejected extraction leaves its path in the list.
AfterDownload_PushFirst(c, outcome) ==
    IF outcome = "resolve"
    THEN NextClip([c EXCEPT
             !.env.clipFiles = @ \cup {ClipFile(c.proc.workspace, c.proc.i)},
             !.proc.clips = Append(@, ClipFile(c.proc.workspace, c.proc.i)),
             !.job.progress = ClipProgress(c.proc.i, clipsNeeded(c.job.data))])
    ELSE NextClip([c EXCEPT
             !.proc.clips = Append(@, ClipFile(c.proc.workspace, c.proc.i))])

\* downloadClip has settled.  Resolved: the clip is recorded and progress
\* is updated.  Rejected: the inner catch logs the error.  The loop goes on.
AfterDownload(c, outcome) ==
    IF outcome = "resolve"
    THEN NextClip([c EXCEPT
             !.env.clipFiles = @ \cup {ClipFile(c.proc.workspace, c.proc.i)},
             !.proc.clips = Append(@, ClipFile(c.proc.workspace, c.proc.i)),
             !.job.progress = ClipProgress(c.proc.i, clipsNeeded(c.job.data))])
    ELSE NextClip(c)

\* Variant of AfterEncode: the status assignment is missing on success.
AfterEncode_NoStatus(c, outcome) ==
    IF outcome.ok
    THEN { [c EXCEPT !.job.progress = Num(100),
                     !.job.completedAt = "date",
                     !.job.downloadUrl = "/api/download/" \o ToString(c.job.id),
                     !.job.outputFile = OutputFile(c.proc.workspace),
                     !.proc = Returned] }
    ELSE { Catch(c, outcome.message) }

\* createMontage has settled.  Resolved: progress 90, then the job is
\* published.  Rejected: the outer catch.
AfterEncode(c, outcome) ==
    IF outcome.ok
    THEN { [c EXCEPT !.job.status = "completed",
                     !.job.progress = Num(100),
                     !.job.completedAt = "date",
                     !.job.downloadUrl = "/api/download/" \o ToString(c.job.id),
                     !.job.outputFile = OutputFile(c.proc.workspace),
                     !.proc = Returned] }
    ELSE { Catch(c, outcome.message) }

Config(jobId) ==
    [job |-> jobs[jobId], proc |-> procs[jobId], env |-> env[jobId]]

\* Variant of Commit: the record is stored under the identifier issued
\* last, as if the pipelines shared one jobId variable.
Commit_LastJob(jobId, c) ==
    LET last == CHOOSE k \in DOMAIN jobs : \A other \in DOMAIN jobs : other <= k
    IN  /\ jobs' = [jobs EXCEPT ![last] = c.job]
        /\ procs' = [procs EXCEPT ![jobId] = c.proc]
        /\ env' = [env EXCEPT ![jobId] = c.env]

\* jobs.set(jobId, job) and the pipeline's new frame and effects
Commit(jobId, c) ==
    /\ jobs' = [jobs EXCEPT ![jobId] = c.job]
    /\ procs' = [procs EXCEPT ![jobId] = c.proc]
    /\ env' = [env EXCEPT ![jobId] = c.env]

(***************************************************************************)
(* Pipeline steps: one per suspension point.                               *)
(***************************************************************************)
ResumeFFmpegCheck(jobId) ==
    /\ jobId \in DOMAIN jobs
    /\ procs[jobId].pc = "checkFFmpeg"
    /\ \E hasFFmpeg \in commandExists :
           \E c \in AfterFFmpegCheck(Config(jobId), hasFFmpeg) : Commit(jobId, c)
    /\ response' = NoResponse

ResumeYtDlpCheck(jobId) ==
    /\ jobId \in DOMAIN jobs
    /\ procs[jobId].pc = "checkYtDlp"
    /\ \E hasYtDlp \in commandExists :
           \E c \in AfterYtDlpCheck(Config(jobId), hasYtDlp) : Commit(jobId, c)
    /\ response' = NoResponse

ResumeProbe(jobId) ==
    /\ jobId \in DOMAIN jobs
    /\ procs[jobId].pc = "probe"
    /\ \E outcome \in getVideoDuration, random \in Randoms :
           \E c \in AfterProbe(Config(jobId), outcome, random) : Commit(jobId, c)
    /\ response' = NoResponse

ResumeDownload(jobId) ==
    /\ jobId \in DOMAIN jobs
    /\ procs[jobId].pc = "download"
    /\ \E outcome \in downloadClip :
           \E c \in AfterDownload(Config(jobId), outcome) : Commit(jobId, c)
    /\ response' = NoResponse

ResumeEncode(jobId) ==
    /\ jobId \in DOMAIN jobs
    /\ procs[jobId].pc = "encode"
    /\ \E outcome \in createMontage :
           \E c \in AfterEncode(Config(jobId), outcome) : Commit(jobId, c)
    /\ response' = NoResponse

(***************************************************************************)
(* Request handlers.  Each runs to completion in one step.                 *)
(***************************************************************************)

\* POST /api/generate-montage
GenerateMontage(body) ==
    IF NoVideoUrls(body)
    THEN /\ response' = [code |-> 400, route |-> "generate-montage",
                         error |-> "At least one video URL is required"]
         /\ UNCHANGED <<jobs, procs, env>>
    ELSE /\ DOMAIN jobs # JobIds
         /\ LET jobId == uuidv4
                c == Start([job |-> NewJob(jobId, body),
                            proc |-> Returned,
                            env |-> NewEnv])
            IN  /\ jobs' = jobs @@ (jobId :> c.job)
                /\ procs' = procs @@ (jobId :> c.proc)
                /\ env' = env @@ (jobId :> c.env)
                /\ response' = [code |-> 200, route |-> "generate-montage",
                                jobId |-> jobId, status |-> "queued"]

\* Variant of JobStatusResponse: jobs that reached a terminal status are
\* treated as expired.
JobStatusResponse_Expire(jobId) ==
    IF jobId \notin DOMAIN jobs \/ jobs[jobId].status \in {"completed", "failed"}
    THEN [code |-> 404, route |-> "job-status", error |-> "Job not found"]
    ELSE [code |-> 200, route |-> "job-status", body |-> jobs[jobId]]

\* The response of GET /api/job-status/:jobId
JobStatusResponse(jobId) ==
    IF jobId \notin DOMAIN jobs
    THEN [code |-> 404, route |-> "job-status", error |-> "Job not found"]
    ELSE [code |-> 200, route |-> "job-status", body |-> jobs[jobId]]

\* GET /api/job-status/:jobId
JobStatus(jobId) ==
    /\ response' = JobStatusResponse(jobId)
    /\ UNCHANGED <<jobs, procs, env>>

\* Variant of DownloadResponse: only !job is tested before the disk.
DownloadResponse_JobOnly(jobId, onDisk) ==
    IF jobId \notin DOMAIN jobs
    THEN [code |-> 404, route |-> "download", error |-> "File not found"]
    ELSE IF ~onDisk
    THEN [code |-> 404, route |-> "download", error |-> "File not found on disk"]
    ELSE [code |-> 200, route |-> "download",
          file |-> jobs[jobId].outputFile,
          filename |-> "montage_v01.mp4"]

\* The response of GET /api/download/:jobId; onDisk is
\* fs.existsSync(job.outputFile)
DownloadResponse(jobId, onDisk) ==
    IF \/ jobId \notin DOMAIN jobs
       \/ jobs[jobId].status # "completed"
       \/ jobs[jobId].outputFile = Undefined
    THEN [code |-> 404, route |-> "download", error |-> "File not found"]
    ELSE IF ~onDisk
    THEN [code |-> 404, route |-> "download", error |-> "File not found on disk"]
    ELSE [code |-> 200, route |-> "download",
          file |-> jobs[jobId].outputFile,
          filename |-> "montage_v01.mp4"]

\* GET /api/download/:jobId
Download(jobId, onDisk) ==
    /\ response' = DownloadResponse(jobId, onDisk)
    /\ UNCHANGED <<jobs, procs, env>>

\* Identifiers a client may ask about: the issued ones and others.
RequestIds == JobIds \cup {0}

\* The bodies the next POST may carry, by the number of jobs accepted so far.
RequestBodies ==
    IF DOMAIN jobs = {}
    THEN Bodies
    ELSE IF Cardinality(DOMAIN jobs) = 1
    THEN LaterBodies
    ELSE {NoClipBody} \cup InvalidBodies

\* The values fs.existsSync(job.outputFile) may return; the handler calls
\* it only past the first test.
existsSync(jobId) ==
    IF \/ jobId \notin DOMAIN jobs
       \/ jobs[jobId].status # "completed"
       \/ jobs[jobId].outputFile = Undefined
    THEN {FALSE}
    ELSE BOOLEAN

Next ==
    \/ \E body \in RequestBodies : GenerateMontage(body)
    \/ \E jobId \in RequestIds : JobStatus(jobId)
    \/ \E jobId \in RequestIds :
           \E onDisk \in existsSync(jobId) : Download(jobId, onDisk)
    \/ \E jobId \in JobIds : ResumeFFmpegCheck(jobId)
    \/ \E jobId \in JobIds : ResumeYtDlpCheck(jobId)
    \/ \E jobId \in JobIds : ResumeProbe(jobId)
    \/ \E jobId \in JobIds : ResumeDownload(jobId)
    \/ \E jobId \in JobIds : ResumeEncode(jobId)

Spec == Init /\ [][Next]_vars

(***************************************************************************)
(* The endless clip loop.  With clipsNeeded Infinity the test i <          *)
(* clipsNeeded never fails.  Spec follows the loop for MaxIter iterations; *)
(* the step below stands for every later iteration: the extraction         *)
(* settles, the clip loop tests i < Infinity and the next probe is called. *)
(* Progress stays 20 + (i / Infinity) * 40 = 20 and the status stays       *)
(* processing, so the job record is unchanged.  The counters and the clip   *)
(* list stay those of the first MaxIter iterations: the extraction that    *)
(* settles here is taken off the count the next one adds to.               *)
(***************************************************************************)
ContinueEndlessLoop(jobId) ==
    /\ jobId \in DOMAIN jobs
    /\ clipsNeeded(jobs[jobId].data).kind = "Infinity"
    /\ procs[jobId].pc = "download"
    /\ procs[jobId].i >= MaxIter - 1
    /\ LoopCond(procs[jobId].i + 1, clipsNeeded(jobs[jobId].data))
    /\ procs' = [procs EXCEPT
                    ![jobId].pc = "probe",
                    ![jobId].call = [NoCall EXCEPT
                        !.url = ClipUrl(jobs[jobId].data, procs[jobId].i)]]
    /\ env' = [env EXCEPT ![jobId].extractions = @ - 1]
    /\ response' = NoResponse
    /\ UNCHANGED jobs

\* A step of the pipeline of job jobId.
PipelineStep(jobId) ==
    \/ ResumeFFmpegCheck(jobId)
    \/ ResumeYtDlpCheck(jobId)
    \/ ResumeProbe(jobId)
    \/ ResumeDownload(jobId)
    \/ ResumeEncode(jobId)
    \/ ContinueEndlessLoop(jobId)

NextFair ==
    \/ Next
    \/ \E jobId \in JobIds : ContinueEndlessLoop(jobId)

\* Every external tool invocation returns: a pipeline that is suspended on
\* one is eventually resumed.
FairSpec ==
    /\ Init
    /\ [][NextFair]_vars
    /\ \A jobId \in JobIds : WF_vars(PipelineStep(jobId))


(***************************************************************************)
(* Properties.                                                             *)
(***************************************************************************)
Terminal == {"completed", "failed"}

StatusMoves ==
    {<<"queued", "processing">>, <<"processing", "completed">>,
     <<"processing", "failed">>, <<"queued", "failed">>}

\* C1: a job's status only moves queued -> processing -> completed,
\* queued -> processing -> failed or queued -> failed, and once it is
\* completed or failed no step changes its status, progress, error,
\* outputFile or downloadUrl.
C1_StatusOneWay ==
    [][\A j \in DOMAIN jobs :
         /\ jobs'[j].status # jobs[j].status
                => <<jobs[j].status, jobs'[j].status>> \in StatusMoves
         /\ jobs[j].status \in Terminal
                => /\ jobs'[j].status = jobs[j].status
                   /\ jobs'[j].progress = jobs[j].progress
                   /\ jobs'[j].error = jobs[j].error
                   /\ jobs'[j].outputFile = jobs[j].outputFile
                   /\ jobs'[j].downloadUrl = jobs[j].downloadUrl]_vars

\* A completed job and a failed job, while a request is being answered.
C1_Witness ==
    /\ \E j \in DOMAIN jobs : jobs[j].status = "completed"
    /\ \E j \in DOMAIN jobs : jobs[j].status = "failed"
    /\ response.route # "none"

\* C2: while a job is not failed, its progress never decreases from one
\* state to the next, so successive status reads see non-decreasing values.
C2_ProgressMonotone ==
    [][\A j \in DOMAIN jobs :
         jobs'[j].status # "failed"
             => RatLeq(jobs[j].progress, jobs'[j].progress)]_vars

\* A status read that sees a progress strictly between two milestones, set
\* by the clip loop after a clip other than the first.
C2_Witness ==
    /\ response.route = "job-status"
    /\ response.code = 200
    /\ response.body.status = "processing"
    /\ RatLess(Num(20), response.body.progress)
    /\ RatLess(response.body.progress, Num(60))

\* C3: a job's progress is 100 if and only if its status is completed.
C3_HundredIffCompleted ==
    \A j \in DOMAIN jobs :
        jobs[j].progress = Num(100) <=> jobs[j].status = "completed"

\* A status read answered with a completed job at progress 100.
C3_Witness ==
    /\ response.route = "job-status"
    /\ response.code = 200
    /\ response.body.status = "completed"
    /\ response.body.progress = Num(100)

\* C4: a job has an error if and only if its status is failed, in the
\* registry and in every job-status response.
C4_ErrorIffFailed ==
    /\ \A j \in DOMAIN jobs :
           jobs[j].error # Undefined <=> jobs[j].status = "failed"
    /\ (response.route = "job-status" /\ response.code = 200)
           => (response.body.error # Undefined <=> response.body.status = "failed")

\* A status read answered with a failed job that carries its error, while
\* another pipeline is suspended.
C4_Witness ==
    /\ response.route = "job-status"
    /\ response.code = 200
    /\ response.body.status = "failed"
    /\ response.body.error # Undefined
    /\ \E j \in DOMAIN jobs : procs[j].pc \in {"probe", "download", "encode"}

\* C5: outputFile, downloadUrl and completedAt are set if and only if the
\* status is completed.
C5_OutputIffCompleted ==
    \A j \in DOMAIN jobs :
        /\ jobs[j].outputFile # Undefined <=> jobs[j].status = "completed"
        /\ jobs[j].downloadUrl # Undefined <=> jobs[j].status = "completed"
        /\ jobs[j].completedAt # Undefined <=> jobs[j].status = "completed"

\* A job that failed in the encoder, and a job that completed with its
\* output recorded.
C5_Witness ==
    /\ \E j \in DOMAIN jobs :
           /\ jobs[j].status = "failed"
           /\ jobs[j].error \in EncodeErrors
           /\ env[j].encodes = 1
    /\ \E j \in DOMAIN jobs :
           /\ jobs[j].status = "completed"
           /\ jobs[j].outputFile = OutputFile(Workspace(j))


\* C6: a rejected probe or extraction never fails the job and never stops
\* the clip loop.  A step taken while a clip is being probed or extracted
\* either calls the extraction for the same clip, or moves on to the next
\* clip, or (after the last clip) writes the manifest and calls the encoder
\* with the clips that succeeded; the job fails in such a step only with the
\* manifest's write error, after every clip was attempted.
C6_ClipFailureIsolated ==
    [][\A j \in DOMAIN jobs :
         (procs[j].pc \in {"probe", "download"} /\ procs'[j] # procs[j])
             => LET n == clipsNeeded(jobs[j].data)
                    i == procs[j].i
                IN  \/ /\ procs[j].pc = "probe"
                       /\ procs'[j].pc = "download"
                       /\ procs'[j].i = i
                       /\ jobs'[j].status = "processing"
                    \/ /\ LoopCond(i + 1, n)
                       /\ procs'[j].pc = "probe"
                       /\ procs'[j].i = i + 1
                       /\ jobs'[j].status = "processing"
                    \/ /\ ~LoopCond(i + 1, n)
                       /\ env'[j].probes = n.val
                       /\ \/ /\ procs'[j].pc = "encode"
                             /\ jobs'[j].status = "processing"
                             /\ env'[j].encodes = 1
                             /\ env'[j].manifest =
                                    [written |-> TRUE, files |-> procs'[j].clips]
                          \/ /\ jobs'[j].status = "failed"
                             /\ jobs'[j].error \in WriteErrors
                             /\ env'[j].encodes = 0]_vars

\* The encoder is running on an empty manifest: every one of at least two
\* clips failed, one of them in the probe and one in the extraction.
C6_Witness ==
    \E j \in DOMAIN jobs :
        /\ procs[j].pc = "encode"
        /\ jobs[j].status = "processing"
        /\ env[j].probes >= 2
        /\ env[j].extractions >= 1
        /\ env[j].extractions < env[j].probes
        /\ env[j].manifest = [written |-> TRUE, files |-> <<>>]

\* C7 as stated: once the attempt for a clip has finished and the next
\* clip is being probed, progress is the value the loop assigns for the
\* finished clip, whether that attempt succeeded or failed.
C7_ProgressIgnoresOutcome ==
    \A j \in DOMAIN jobs :
        (procs[j].pc = "probe" /\ procs[j].i >= 1)
            => jobs[j].progress =
                   ClipProgress(procs[j].i - 1, clipsNeeded(jobs[j].data))

\* C8: when a tool is missing at the dependency check, the job goes from
\* queued to failed with the fixed message, progress 0, no workspace and no
\* tool invocation; a job carrying that message has never been processing.
C8_MissingDependencies ==
    \A j \in DOMAIN jobs :
        /\ procs[j].pc = "checkYtDlp"
               => \A hasYtDlp \in commandExists :
                      (~procs[j].hasFFmpeg \/ ~hasYtDlp)
                          => \A c \in AfterYtDlpCheck(Config(j), hasYtDlp) :
                                 /\ jobs[j].status = "queued"
                                 /\ c.job.status = "failed"
                                 /\ c.job.error = MissingDependencies
                                 /\ c.job.progress = Num(0)
                                 /\ c.env = NewEnv
                                 /\ c.proc = Returned
        /\ jobs[j].error = MissingDependencies
               => /\ jobs[j].status = "failed"
                  /\ jobs[j].progress = Num(0)
                  /\ env[j] = NewEnv
                  /\ procs[j] = Returned
        /\ procs[j].pc \in {"checkFFmpeg", "checkYtDlp"}
               => jobs[j].status = "queued" /\ env[j] = NewEnv

\* The yt-dlp check is pending with ffmpeg found missing, next to a job
\* that already failed for missing dependencies.
C8_Witness ==
    /\ \E j \in DOMAIN jobs :
           procs[j].pc = "checkYtDlp" /\ ~procs[j].hasFFmpeg
    /\ \E j \in DOMAIN jobs :
           jobs[j].status = "failed" /\ jobs[j].error = MissingDependencies

\* C9: a job that failed in workspace creation, in the manifest write or in
\* the encoder carries that failure's message and the progress it had:
\* 10, 60 and 70; a rejected encoder leaves the progress as it is.
C9_FatalKeepsProgress ==
    \A j \in DOMAIN jobs :
        /\ jobs[j].status = "failed"
               => /\ jobs[j].error \in
                         {MissingDependencies} \cup MkdtempErrors
                             \cup WriteErrors \cup EncodeErrors
                  /\ jobs[j].error \in MkdtempErrors
                         => jobs[j].progress = Num(10) /\ env[j].workspaces = 0
                  /\ jobs[j].error \in WriteErrors
                         => /\ jobs[j].progress = Num(60)
                            /\ ~env[j].manifest.written
                            /\ env[j].encodes = 0
                  /\ jobs[j].error \in EncodeErrors
                         => jobs[j].progress = Num(70) /\ env[j].encodes = 1
        /\ procs[j].pc = "encode"
               => \A outcome \in createMontage :
                      ~outcome.ok
                          => \A c \in AfterEncode(Config(j), outcome) :
                                 /\ c.job.status = "failed"
                                 /\ c.job.error = outcome.message
                                 /\ c.job.progress = jobs[j].progress

\* One job failed in the encoder at progress 70 and another in workspace
\* creation at progress 10.
C9_Witness ==
    /\ \E j \in DOMAIN jobs :
           /\ jobs[j].status = "failed"
           /\ jobs[j].error \in EncodeErrors
           /\ jobs[j].progress = Num(70)
    /\ \E j \in DOMAIN jobs :
           /\ jobs[j].status = "failed"
           /\ jobs[j].error \in MkdtempErrors
           /\ jobs[j].progress = Num(10)

\* C10: a step that answers a creation request with 200 inserts exactly
\* one job, under an identifier no job had before, queued with progress 0,
\* and answers {jobId, status: queued}; the stored job is still untouched
\* by the pipeline when the response is sent.  No other step inserts a job.
C10_CreateBeforePipeline ==
    [][/\ (response'.route = "generate-montage" /\ response'.code = 200)
              => /\ response'.jobId \notin DOMAIN jobs
                 /\ \A j \in DOMAIN jobs : jobs[j].id # response'.jobId
                 /\ DOMAIN jobs' = DOMAIN jobs \cup {response'.jobId}
                 /\ response'.status = "queued"
                 /\ jobs'[response'.jobId].id = response'.jobId
                 /\ jobs'[response'.jobId].status = "queued"
                 /\ jobs'[response'.jobId].progress = Num(0)
                 /\ jobs'[response'.jobId].error = Undefined
                 /\ env'[response'.jobId] = NewEnv
       /\ DOMAIN jobs' # DOMAIN jobs
              => response'.route = "generate-montage" /\ response'.code = 200]_vars

\* The second creation request is being answered while the first job's
\* pipeline is already past its dependency check.
C10_Witness ==
    /\ response.route = "generate-montage"
    /\ response.code = 200
    /\ Cardinality(DOMAIN jobs) = 2
    /\ jobs[response.jobId].status = "queued"
    /\ \E j \in DOMAIN jobs : jobs[j].status = "processing"


\* C11: a creation request answered with 400 leaves the registry, the
\* pipelines and their effects unchanged; a request is accepted only with a
\* non-empty videoUrls, so no job is ever created from a body whose
\* videoUrls is missing or empty.
C11_InvalidRequestNoEffect ==
    [][response'.route = "generate-montage"
           => \/ /\ response'.code = 400
                 /\ response'.error = "At least one video URL is required"
                 /\ UNCHANGED <<jobs, procs, env>>
              \/ /\ response'.code = 200
                 /\ "videoUrls" \in DOMAIN jobs'[response'.jobId].data
                 /\ Len(jobs'[response'.jobId].data.videoUrls) > 0]_vars

\* A creation request is being refused while a job is in the registry with
\* its pipeline suspended.
C11_Witness ==
    /\ response.route = "generate-montage"
    /\ response.code = 400
    /\ \E j \in DOMAIN jobs : procs[j].pc = "probe"

\* C12: the download endpoint serves the file exactly when the job exists,
\* is completed, has its outputFile recorded and the artifact is on disk;
\* it answers 'File not found' for an unknown, queued, processing or failed
\* job, and 'File not found on disk' for a completed job whose artifact is
\* absent.
C12_DownloadOnlyCompleted ==
    /\ \A jobId \in RequestIds, onDisk \in BOOLEAN :
           LET r == DownloadResponse(jobId, onDisk)
               known == jobId \in DOMAIN jobs
           IN  /\ r.code = 200
                      <=> /\ known
                          /\ jobs[jobId].status = "completed"
                          /\ jobs[jobId].outputFile # Undefined
                          /\ onDisk
               /\ r.code = 200 => r.file = OutputFile(Workspace(jobId))
               /\ (~known \/ jobs[jobId].status \in {"queued", "processing", "failed"})
                      => r = [code |-> 404, route |-> "download",
                              error |-> "File not found"]
               /\ (known /\ jobs[jobId].status = "completed" /\ ~onDisk)
                      => r = [code |-> 404, route |-> "download",
                              error |-> "File not found on disk"]
    /\ response.route = "download"
           => \E jobId \in RequestIds, onDisk \in BOOLEAN :
                  response = DownloadResponse(jobId, onDisk)

\* A download is answered 'File not found on disk' for a completed job
\* while another job is still processing.
C12_Witness ==
    /\ response.route = "download"
    /\ response.code = 404
    /\ response.error = "File not found on disk"
    /\ \E j \in DOMAIN jobs : jobs[j].status = "processing"

\* C13: with N = floor(montageLength / interval) clips needed, the clip
\* being probed or extracted is always the next unattempted index, the
\* encoder is invoked once and only after N probes, a completed job has
\* seen exactly N probes and one encode, and a resolved encoder ends the
\* job completed with progress 100.
C13_ExactlyNClips ==
    /\ clipsNeeded([interval |-> 30, montageLength |-> 60]).val = 2
    /\ clipsNeeded([interval |-> 30, montageLength |-> 95]).val = 3
    /\ \A j \in DOMAIN jobs :
           LET n == clipsNeeded(jobs[j].data)
           IN  n.kind = "finite"
                   => /\ n.val * jobs[j].data.interval <= jobs[j].data.montageLength
                      /\ jobs[j].data.montageLength < (n.val + 1) * jobs[j].data.interval
                      /\ env[j].probes <= n.val
                      /\ env[j].extractions <= env[j].probes
                      /\ env[j].encodes <= 1
                      /\ procs[j].pc \in {"probe", "download"}
                             => /\ env[j].probes = procs[j].i + 1
                                /\ env[j].encodes = 0
                      /\ (procs[j].pc = "encode" \/ env[j].encodes = 1
                              \/ jobs[j].status = "completed")
                             => env[j].probes = n.val /\ env[j].encodes = 1
                      /\ procs[j].pc = "encode"
                             => \A outcome \in createMontage :
                                    outcome.ok
                                        => \A c \in AfterEncode(Config(j), outcome) :
                                               /\ c.job.status = "completed"
                                               /\ c.job.progress = Num(100)
                                               /\ c.env.probes = n.val
                                               /\ c.env.encodes = 1

\* A job asking for 95 seconds in clips of 30 has completed after three
\* probes, not all of them followed by an extraction.
C13_Witness ==
    \E j \in DOMAIN jobs :
        /\ jobs[j].data.interval = 30
        /\ jobs[j].data.montageLength = 95
        /\ jobs[j].status = "completed"
        /\ env[j].probes = 3
        /\ env[j].extractions < 3

\* C14 as stated: every job's progress is an integer between 0 and 100.
C14_ProgressIntegerPercent ==
    \A j \in DOMAIN jobs :
        /\ IsInteger(jobs[j].progress)
        /\ RatLeq(Num(0), jobs[j].progress)
        /\ RatLeq(jobs[j].progress, Num(100))

\* C15: job-status answers 200 with the stored job for every identifier
\* that was issued (every identifier a pipeline was started for), and 404
\* 'Job not found' for every other identifier.
C15_IssuedJobsStay ==
    /\ DOMAIN env \subseteq DOMAIN jobs
    /\ \A jobId \in RequestIds :
           IF jobId \in DOMAIN env
           THEN /\ JobStatusResponse(jobId).code = 200
                /\ JobStatusResponse(jobId).body = jobs[jobId]
                /\ jobs[jobId].id = jobId
           ELSE JobStatusResponse(jobId) =
                    [code |-> 404, route |-> "job-status", error |-> "Job not found"]
    /\ response.route = "job-status"
           => \E jobId \in RequestIds : response = JobStatusResponse(jobId)

\* A status read is answered with a job that reached a terminal status,
\* after a second job was issued; an unissued identifier remains.
C15_Witness ==
    /\ response.route = "job-status"
    /\ response.code = 200
    /\ response.body.status \in Terminal
    /\ response.body.id = 1
    /\ Cardinality(DOMAIN jobs) = 2

\* C20: a step changes the record, frame and effects of at most one job,
\* a job whose pipeline has not returned; and no step changes a job's id,
\* createdAt, type or data.
C20_OnlyOwnJob ==
    [][\A j \in DOMAIN jobs :
         /\ jobs'[j].id = jobs[j].id
         /\ jobs'[j].createdAt = jobs[j].createdAt
         /\ jobs'[j].type = jobs[j].type
         /\ jobs'[j].data = jobs[j].data
         /\ jobs'[j] # jobs[j]
                => /\ procs[j].pc # "returned"
                   /\ procs[j].pc # procs'[j].pc \/ procs[j].i # procs'[j].i
                   /\ \A k \in DOMAIN jobs \ {j} :
                          /\ jobs'[k] = jobs[k]
                          /\ procs'[k] = procs[k]
                          /\ env'[k] = env[k]]_vars

\* Two pipelines are suspended in the clip loop at once, one of them with
\* its progress already advanced.
C20_Witness ==
    \E j, k \in DOMAIN jobs :
        /\ j # k
        /\ procs[j].pc \in {"probe", "download"}
        /\ procs[k].pc \in {"probe", "download"}
        /\ RatLess(Num(20), jobs[j].progress)


\* C16 as stated: for every duration the probe can report, the starts the
\* code can pass to the extraction lie in 0..maxStart and include both ends
\* of that range, maxStart itself too.
C16_StartCoversRange ==
    \A j \in DOMAIN jobs :
        procs[j].pc = "probe"
            => \A outcome \in getVideoDuration :
                   outcome.ok
                       => LET maxStart == MaxStart(parseDuration(outcome.stdout),
                                                   jobs[j].data.interval)
                              starts ==
                                  { c.proc.call.startTime :
                                      c \in UNION { AfterProbe(Config(j), outcome, random) :
                                                      random \in Randoms } }
                          IN  /\ starts \subseteq 0..maxStart
                              /\ 0 \in starts
                              /\ maxStart \in starts

\* The clip indices in S, ascending.
Ascending(S) ==
    [k \in 1..Cardinality(S) |->
        CHOOSE i \in S : Cardinality({x \in S : x < i}) = k - 1]

\* C17: a written manifest lists exactly the clip files that an extraction
\* produced, each once, in ascending clip index; the clip list a pipeline
\* holds is at every moment that list for the clips attempted so far.
C17_ManifestIsSucceededClips ==
    \A j \in DOMAIN jobs :
        LET n == clipsNeeded(jobs[j].data)
            done == { i \in 0..(MaxClips + MaxIter) :
                        ClipFile(Workspace(j), i) \in env[j].clipFiles }
            expected == [k \in 1..Cardinality(done) |->
                            ClipFile(Workspace(j), Ascending(done)[k])]
        IN  /\ Cardinality(done) = Cardinality(env[j].clipFiles)
            /\ env[j].manifest.written
                   => /\ env[j].manifest.files = expected
                      /\ Len(env[j].manifest.files) <= env[j].extractions
                      /\ n.kind = "finite" => \A i \in done : i < n.val
            /\ procs[j].pc \in {"probe", "download", "encode"}
                   => procs[j].clips = expected
            /\ (env[j].manifest.written /\ env[j].extractions = 0)
                   => env[j].manifest.files = <<>>

\* A manifest of an encoder call lists the first and the third clip of
\* three: the second clip failed.
C17_Witness ==
    \E j \in DOMAIN jobs :
        /\ procs[j].pc = "encode"
        /\ env[j].probes = 3
        /\ env[j].manifest.written
        /\ env[j].manifest.files =
               <<ClipFile(Workspace(j), 0), ClipFile(Workspace(j), 2)>>

\* C18: every probe and every extraction is called with the first url of
\* the request, and no url is held for any other call.
C18_FirstUrlOnly ==
    \A j \in DOMAIN jobs :
        /\ procs[j].pc \in {"probe", "download"}
               => procs[j].call.url = jobs[j].data.videoUrls[1]
        /\ procs[j].pc \notin {"probe", "download"}
               => procs[j].call = NoCall
        /\ procs[j].pc = "probe"
               => \A outcome \in getVideoDuration, random \in Randoms :
                      \A c \in AfterProbe(Config(j), outcome, random) :
                          c.proc.pc \in {"probe", "download"}
                              => c.proc.call.url = jobs[j].data.videoUrls[1]

\* The second clip of a request with two urls is being extracted.
C18_Witness ==
    \E j \in DOMAIN jobs :
        /\ Len(jobs[j].data.videoUrls) = 2
        /\ procs[j].pc = "download"
        /\ procs[j].i = 1
        /\ procs[j].call.url = "u1"


\* C19 as stated: every accepted job eventually reaches a terminal status,
\* given that every tool invocation returns.
C19_EveryJobTerminates ==
    \A j \in JobIds :
        (j \in DOMAIN jobs)
            ~> (j \in DOMAIN jobs /\ jobs[j].status \in Terminal)

====
